---- MODULE Spec2Model ----
(***************************************************************************)
(* A model of the OpenRouter pipe of src/plugins/openrouter_model_selector *)
(* (class Pipe): pipe, stream_response, get_completion, _handle_response   *)
(* and _get_headers.  One call of pipe is followed from the request to the *)
(* value the caller ends up with: the returned string, or the fragments    *)
(* the returned generator yields until it returns or raises.               *)
(***************************************************************************)
EXTENDS Integers, Sequences, FiniteSets, TLC

(***************************************************************************)
(* Bounds of the model and constants of the program.                       *)
(***************************************************************************)
\* The longest run of frames read from one streaming response.
MaxFrames == 3

\* stream_response(self, payload, retries=3), get_completion(..., retries=3)
retries == 3

\* response.status_code == 429
RATE_LIMITED == 429

\* The HTTP statuses the upstream answers with in the model.
Statuses == {200, 429, 500}

(***************************************************************************)
(* Text.  Fragments and results are strings, joined with \o as the code    *)
(* joins them.                                                             *)
(***************************************************************************)
OPEN_MARKER == "<think>\n"

CLOSE_MARKER == "\n</think>\n\n"

\* A key that a JSON object or a dict does not carry (dict.get's None).
Absent == "<absent>"

\* Python truthiness of an optional string: None and "" are falsy.
Truthy(v) == v # Absent /\ v # ""

\* str(e) of the exceptions the calls meet.
ExcText(e) ==
    CASE e.type = "ConnectionError" -> "connection failed"
      [] e.type = "ChunkedEncodingError" -> "connection broken"
      [] e.type = "HTTPError" -> ToString(e.status) \o " Error"
      [] e.type = "ValueError" -> "OPENROUTER_API_KEY is not set"
      [] e.type = "UnboundLocalError" ->
            "local variable 'response' referenced before assignment"
      [] e.type = "KeyError" -> "'" \o e.key \o "'"
      [] e.type = "Exception" -> e.message

ConnectionError == [type |-> "ConnectionError"]

ChunkedEncodingError == [type |-> "ChunkedEncodingError"]

HTTPError(s) == [type |-> "HTTPError", status |-> s]

\* yield f"Error: Request failed: {str(e)}"
RequestFailed(e) == "Error: Request failed: " \o ExcText(e)

\* pipe: return f"Error: {str(e)}"
PipeError(e) == "Error: " \o ExcText(e)

\* pipe: return f"Error: Missing required key in request: {e}"
PipeMissingKey(k) ==
    "Error: Missing required key in request: "
        \o ExcText([type |-> "KeyError", key |-> k])

(***************************************************************************)
(* The frames of a streaming response (the lines response.iter_lines()     *)
(* gives), other than the `data: [DONE]` sentinel.                         *)
(***************************************************************************)
NoObj == [has |-> FALSE, reasoning |-> Absent, content |-> Absent]

Obj(r, c) == [has |-> TRUE, reasoning |-> r, content |-> c]

\* kind: "empty" (b""), "nodata" (no `data: ` prefix), "badjson",
\* "nochoices", "emptychoices", "choice" (choices[0] with delta / message).
Line(kind, d, m) == [kind |-> kind, delta |-> d, message |-> m]

Chunk(d, m) == Line("choice", d, m)

SkipKinds == {"empty", "nodata", "badjson", "nochoices", "emptychoices"}

\* The lines without a fragment: the kinds above and a choice that has
\* neither delta nor message.
SkipLines ==
    {Line(k, NoObj, NoObj) : k \in SkipKinds} \cup {Chunk(NoObj, NoObj)}

\* The frames the upstream sends in the model: reasoning and content in
\* delta, both in one delta, delta and message together, empty strings, and
\* every line the loop skips.
Frames ==
    { Chunk(Obj("r1", Absent), NoObj),
      Chunk(Obj("r2", Absent), NoObj),
      Chunk(Obj(Absent, "c1"), NoObj),
      Chunk(Obj(Absent, "c2"), NoObj),
      Chunk(Obj("r1", "c1"), NoObj),
      Chunk(Obj(Absent, "c2"), Obj("r2", "c1")),
      Chunk(Obj("", ""), NoObj) } \cup SkipLines

\* reasoning_text of a choice: delta's, else message's, else None.
ReasoningText(choice) ==
    IF choice.delta.has /\ choice.delta.reasoning # Absent
    THEN choice.delta.reasoning
    ELSE IF choice.message.has /\ choice.message.reasoning # Absent
         THEN choice.message.reasoning
         ELSE Absent

\* content_text of a choice: delta's, else message's, else None.
ContentText(choice) ==
    IF choice.delta.has /\ choice.delta.content # Absent
    THEN choice.delta.content
    ELSE IF choice.message.has /\ choice.message.content # Absent
         THEN choice.message.content
         ELSE Absent

\* HandleReasoning with the opening tag written only before the first
\* reasoning token of the call.
HandleReasoningOpenOnce(st, reasoning_text) ==
    IF Truthy(reasoning_text)
    THEN [in_reasoning_state |-> TRUE,
          out |-> (IF \A i \in DOMAIN st.out : st.out[i] # OPEN_MARKER
                   THEN Append(st.out, OPEN_MARKER)
                   ELSE st.out) \o <<reasoning_text>>]
    ELSE st

\* HandleReasoning with the test of in_reasoning_state left out.
HandleReasoningAlwaysOpens(st, reasoning_text) ==
    IF Truthy(reasoning_text)
    THEN [in_reasoning_state |-> TRUE,
          out |-> st.out \o <<OPEN_MARKER, reasoning_text>>]
    ELSE st

\* The reasoning half of the loop body: the opening tag on entering the
\* reasoning state, then the token.  st = [in_reasoning_state, out].
HandleReasoning(st, reasoning_text) ==
    IF Truthy(reasoning_text)
    THEN [in_reasoning_state |-> TRUE,
          out |-> (IF ~st.in_reasoning_state
                   THEN Append(st.out, OPEN_MARKER)
                   ELSE st.out) \o <<reasoning_text>>]
    ELSE st

\* HandleContent with `in_reasoning_state = False` left out.
HandleContentNoReset(st, content_text) ==
    IF Truthy(content_text)
    THEN [in_reasoning_state |-> st.in_reasoning_state,
          out |-> (IF st.in_reasoning_state
                   THEN Append(st.out, CLOSE_MARKER)
                   ELSE st.out) \o <<content_text>>]
    ELSE st

\* The content half of the loop body: the closing tag on leaving the
\* reasoning state, then the token.
HandleContent(st, content_text) ==
    IF Truthy(content_text)
    THEN [in_reasoning_state |-> FALSE,
          out |-> (IF st.in_reasoning_state
                   THEN Append(st.out, CLOSE_MARKER)
                   ELSE st.out) \o <<content_text>>]
    ELSE st

\* ProcessLine with a line that is skipped also leaving the reasoning state.
ProcessLineSkipResets(st, line) ==
    IF line.kind # "choice"
    THEN [st EXCEPT !.in_reasoning_state = FALSE]
    ELSE HandleContent(HandleReasoning(st, ReasoningText(line)),
                       ContentText(line))

\* One turn of `for line in response.iter_lines()` on a line that is not
\* the sentinel.
ProcessLine(st, line) ==
    IF line.kind # "choice"
    THEN st
    ELSE HandleContent(HandleReasoning(st, ReasoningText(line)),
                       ContentText(line))

\* `data: [DONE]`: close the tag if still open, then break.
OnDone(st) ==
    IF st.in_reasoning_state
    THEN [st EXCEPT !.out = Append(@, CLOSE_MARKER)]
    ELSE st

\* AfterLoop with the closing tag written whatever the state.
AfterLoopAlwaysCloses(st) == [st EXCEPT !.out = Append(@, CLOSE_MARKER)]

\* After the loop: close the tag if still in the reasoning state; return.
AfterLoop(st) ==
    IF st.in_reasoning_state
    THEN [st EXCEPT !.out = Append(@, CLOSE_MARKER)]
    ELSE st

(***************************************************************************)
(* The retry decision of `except requests.RequestException` in both calls. *)
(***************************************************************************)
Unbound == [bound |-> FALSE, status_code |-> 0]

Bound(s) == [bound |-> TRUE, status_code |-> s]

\* WaitTime counting attempts from 1.
WaitTimeFromOne(a) == 2 ^ (a + 1)

\* wait_time = 2 ** attempt
WaitTime(a) == 2 ^ a

\* RetryEligible with the last attempt retried too.
RetryEligibleOnLast(resp, a) == resp.status_code = RATE_LIMITED /\ a < retries

\* RetryEligible for any failure, whatever the status.
RetryEligibleAnyFailure(resp, a) == a < retries - 1

\* response.status_code == 429 and attempt < retries - 1
RetryEligible(resp, a) == resp.status_code = RATE_LIMITED /\ a < retries - 1

\* What the handler does with the `response` it reads: the name is unbound
\* when no requests.post of this call has returned yet.
Handler(resp, a) ==
    IF ~resp.bound THEN "unbound"
    ELSE IF RetryEligible(resp, a) THEN "retry"
    ELSE "fail"

(***************************************************************************)
(* get_completion's transform of a parsed body and _handle_response.       *)
(***************************************************************************)
\* body.choices: "absent", "empty" or "one"; body.message: choices[0].message
Data(ch, m) == [json |-> TRUE, choices |-> ch, message |-> m]

InvalidJson == [json |-> FALSE, choices |-> "absent", message |-> NoObj]

Bodies ==
    { InvalidJson,
      Data("absent", NoObj),
      Data("empty", NoObj),
      Data("one", NoObj),
      Data("one", Obj("r1", "c1")),
      Data("one", Obj("r1", Absent)),
      Data("one", Obj("r1", "")),
      Data("one", Obj(Absent, "c1")),
      Data("one", Obj("", "c1")),
      Data("one", Obj("", "")) }

\* message.get(key, ""): the default only for a missing key
GetOr(v, default) == IF v = Absent THEN default ELSE v

\* Transform without the branch for reasoning alone.
TransformNoLoneReasoning(data) ==
    IF data.choices # "one"
    THEN ""
    ELSE LET content == GetOr(data.message.content, "")
             reasoning == GetOr(data.message.reasoning, "")
         IN IF Truthy(reasoning) /\ Truthy(content)
            THEN OPEN_MARKER \o reasoning \o CLOSE_MARKER \o content
            ELSE IF Truthy(content) THEN content ELSE ""

Transform(data) ==
    IF data.choices # "one"
    THEN ""
    ELSE LET content == GetOr(data.message.content, "")
             reasoning == GetOr(data.message.reasoning, "")
         IN IF Truthy(reasoning) /\ Truthy(content)
            THEN OPEN_MARKER \o reasoning \o CLOSE_MARKER \o content
            ELSE IF Truthy(reasoning)
                 THEN OPEN_MARKER \o reasoning \o CLOSE_MARKER
                 ELSE IF Truthy(content) THEN content ELSE ""

\* _handle_response: the parsed body, or a plain Exception (never a
\* requests.RequestException) for an HTTP error status or a bad body.
HandleResponse(s, body) ==
    IF s >= 400
    THEN [ok |-> FALSE,
          exc |-> [type |-> "Exception",
                   message |-> "HTTP Error " \o ToString(s)],
          data |-> InvalidJson]
    ELSE IF ~body.json
         THEN [ok |-> FALSE,
               exc |-> [type |-> "Exception",
                        message |-> "Invalid JSON response: "],
               data |-> InvalidJson]
         ELSE [ok |-> TRUE,
               exc |-> [type |-> "Exception", message |-> ""],
               data |-> body]

(***************************************************************************)
(* State.                                                                  *)
(***************************************************************************)
VARIABLES
    api_key,             \* valves.OPENROUTER_API_KEY is set
    pc,                  \* where the call is
    stream,              \* body["stream"] of the call
    attempt,             \* the loop variable of `for attempt in range(retries)`
    response,            \* the local `response` of the running call
    in_reasoning_state,  \* the local of stream_response
    out,                 \* the fragments the generator has yielded
    ret,                 \* the string pipe returned (non-streaming, or an error)
    raised,              \* the exception that reached the caller, or "none"
    frames,              \* history: the frames read from the response
    ended,               \* history: how the reading of the response ended
    outcomes,            \* history: the outcome of each upstream request
    sleeps,              \* history: the arguments of time.sleep
    request,             \* history: the body pipe was called with
    received,            \* history: the body get_completion's request got
    held                 \* the connections of the call not yet released

\* Two calls of stream_response on one Pipe, their pulls interleaved.
VARIABLES
    calls,               \* per call: where it is, its fragments, its frames
    cells                \* the storage of in_reasoning_state

\* get_openrouter_models and its cache.
VARIABLES
    models_cache,        \* self._models_cache
    last_fetch_time,     \* self._last_fetch_time
    free_only,           \* valves.FREE_ONLY
    now,                 \* time.time()
    m_result,            \* history: what the last call returned
    m_outcome,           \* history: how the last call went
    m_calls,             \* history: the number of calls
    m_ticks              \* history: the number of steps of the clock

call_vars == <<api_key, pc, stream, attempt, response, in_reasoning_state,
               out, ret, raised, frames, ended, outcomes, sleeps, request,
               received, held>>

two_vars == <<calls, cells>>

models_vars == <<models_cache, last_fetch_time, free_only, now, m_result,
                 m_outcome, m_calls, m_ticks>>

vars == <<call_vars, two_vars, models_vars>>

hist == <<frames, ended, outcomes, sleeps>>

\* What an action of one call of pipe leaves alone.
rest == <<two_vars, models_vars>>

\* The number of upstream requests issued.
nreq == Len(outcomes)

Conn == [conn |-> TRUE, status |-> 0]

Http(s) == [conn |-> FALSE, status |-> s]

\* The body of no request.
NoRequest == [model |-> FALSE, messages |-> FALSE, stream |-> FALSE]

\* The other two scenarios not started.
TwoIdle == calls = <<>> /\ cells = <<>>

\* self._models_cache = None, and the cache holding a list.
NoCache == [present |-> FALSE, models |-> <<>>]

Cached(list) == [present |-> TRUE, models |-> list]

ModelsIdle ==
    /\ models_cache = NoCache
    /\ last_fetch_time = 0
    /\ free_only = FALSE
    /\ now = 0
    /\ m_result = <<>>
    /\ m_outcome = "none"
    /\ m_calls = 0
    /\ m_ticks = 0

\* No call of pipe yet.
CallIdle ==
    /\ pc = "idle"
    /\ stream = FALSE
    /\ attempt = 0
    /\ response = Unbound
    /\ in_reasoning_state = FALSE
    /\ out = <<>>
    /\ ret = Absent
    /\ raised = "none"
    /\ frames = <<>>
    /\ ended = "no"
    /\ outcomes = <<>>
    /\ sleeps = <<>>
    /\ request = NoRequest
    /\ received = InvalidJson
    /\ held = 0

Init ==
    /\ api_key \in BOOLEAN
    /\ CallIdle
    /\ TwoIdle
    /\ ModelsIdle

(***************************************************************************)
(* pipe: the request is checked and handed to one of the two calls.  With  *)
(* stream set the generator is returned unstarted: none of the body of     *)
(* stream_response has run when pipe returns.                              *)
(***************************************************************************)
RequestBodies == [model : BOOLEAN, messages : BOOLEAN, stream : BOOLEAN]

\* MissingKey with body["messages"] read as body.get("messages").
MissingKeyModelOnly(body) == IF ~body.model THEN "model" ELSE Absent

\* The key whose lookup raises KeyError: body["model"] is read first, then
\* body["messages"].
MissingKey(body) ==
    IF ~body.model THEN "model"
    ELSE IF ~body.messages THEN "messages"
    ELSE Absent

Pipe ==
    /\ pc = "idle"
    /\ \E body \in RequestBodies :
          /\ request' = body
          /\ stream' = (MissingKey(body) = Absent /\ body.stream)
          /\ IF MissingKey(body) # Absent
             THEN pc' = "done" /\ ret' = PipeMissingKey(MissingKey(body))
             ELSE IF body.stream
                  THEN pc' = "s_attempt" /\ ret' = ret
                  ELSE pc' = "gc_attempt" /\ ret' = ret
    /\ UNCHANGED <<api_key, attempt, response, in_reasoning_state, out,
                   raised, hist, received, held, rest>>

(***************************************************************************)
(* stream_response.                                                        *)
(***************************************************************************)
\* requests.post(..., stream=True) returning: the connection of the response
\* stays checked out while its body is unread.
AfterPost(h) == h + 1

\* The body read to its end, or the read failing: the connection goes back.
AfterBodyRead(h) == h - 1

\* Leaving the loop with the body unread (break, or the generator dropped):
\* stream_response has no response.close(), no with block and no finally.
AfterBreak(h) == h

\* `except requests.RequestException as e` of stream_response, reading the
\* local `response` as it is when the handler runs.
StreamExcept(resp, e) ==
    LET h == Handler(resp, attempt)
    IN /\ pc' = CASE h = "unbound" -> "raised"
                  [] h = "retry" ->
                        IF attempt + 1 < retries THEN "s_attempt" ELSE "done"
                  [] h = "fail" -> "done"
       /\ raised' = IF h = "unbound" THEN "UnboundLocalError" ELSE raised
       /\ sleeps' = IF h = "retry"
                    THEN Append(sleeps, WaitTime(attempt))
                    ELSE sleeps
       /\ attempt' = IF h = "retry" THEN attempt + 1 ELSE attempt
       /\ out' = IF h = "fail" THEN Append(out, RequestFailed(e)) ELSE out

\* headers=self._get_headers() with no key: ValueError is no
\* RequestException, so it leaves the generator at the caller's first pull.
StreamNoKey ==
    /\ pc = "s_attempt"
    /\ ~api_key
    /\ pc' = "raised"
    /\ raised' = "ValueError"
    /\ UNCHANGED <<api_key, stream, attempt, response, in_reasoning_state,
                   out, ret, hist, request, received, held, rest>>

\* requests.post raises (connection failure, timeout): `response` is not
\* assigned by this attempt.
StreamPostConnFail ==
    /\ pc = "s_attempt"
    /\ api_key
    /\ outcomes' = Append(outcomes, Conn)
    /\ response' = response
    /\ StreamExcept(response, ConnectionError)
    /\ UNCHANGED <<api_key, stream, in_reasoning_state, ret, frames, ended,
                   request, received, held, rest>>

\* requests.post returns; raise_for_status raises HTTPError on 4xx / 5xx.
StreamPostStatus ==
    /\ pc = "s_attempt"
    /\ api_key
    /\ \E s \in Statuses :
          /\ outcomes' = Append(outcomes, Http(s))
          /\ response' = Bound(s)
          /\ IF s >= 400
             THEN StreamExcept(Bound(s), HTTPError(s))
             ELSE /\ pc' = "s_read"
                  /\ UNCHANGED <<raised, sleeps, attempt, out>>
    /\ held' = AfterPost(held)
    /\ UNCHANGED <<api_key, stream, in_reasoning_state, ret, frames, ended,
                   request, received, rest>>

\* One line of the response that is not the sentinel.
StreamFrame ==
    /\ pc = "s_read"
    /\ Len(frames) < MaxFrames
    /\ \E line \in Frames :
          LET st == ProcessLine([in_reasoning_state |-> in_reasoning_state,
                                 out |-> out], line)
          IN /\ in_reasoning_state' = st.in_reasoning_state
             /\ out' = st.out
             /\ frames' = Append(frames, line)
    /\ UNCHANGED <<api_key, pc, stream, attempt, response, ret, raised,
                   ended, outcomes, sleeps, request, received, held, rest>>

\* The line `data: [DONE]`: the branch of the loop, the break, and the code
\* after the loop up to the return.
StreamDone ==
    /\ pc = "s_read"
    /\ LET st == AfterLoop(OnDone([in_reasoning_state |-> in_reasoning_state,
                                   out |-> out]))
       IN /\ in_reasoning_state' = st.in_reasoning_state
          /\ out' = st.out
    /\ ended' = "sentinel"
    /\ pc' = "done"
    /\ held' = AfterBreak(held)
    /\ UNCHANGED <<api_key, stream, attempt, response, ret, raised, frames,
                   outcomes, sleeps, request, received, rest>>

\* iter_lines is exhausted without a sentinel: the code after the loop.
StreamEnd ==
    /\ pc = "s_read"
    /\ LET st == AfterLoop([in_reasoning_state |-> in_reasoning_state,
                            out |-> out])
       IN /\ in_reasoning_state' = st.in_reasoning_state
          /\ out' = st.out
    /\ ended' = "exhausted"
    /\ pc' = "done"
    /\ held' = AfterBodyRead(held)
    /\ UNCHANGED <<api_key, stream, attempt, response, ret, raised, frames,
                   outcomes, sleeps, request, received, rest>>

\* iter_lines raises a RequestException while the body is read.
StreamReadError ==
    /\ pc = "s_read"
    /\ ended' = "error"
    /\ StreamExcept(response, ChunkedEncodingError)
    /\ held' = AfterBodyRead(held)
    /\ UNCHANGED <<api_key, stream, response, in_reasoning_state, ret,
                   frames, outcomes, request, received, rest>>

\* The caller drops the generator while it is suspended at a yield:
\* GeneratorExit is raised there, which no handler of stream_response
\* catches and no finally or with block answers.
StreamAbandon ==
    /\ pc = "s_read"
    /\ out # <<>>
    /\ pc' = "abandoned"
    /\ ended' = "abandoned"
    /\ held' = AfterBreak(held)
    /\ UNCHANGED <<api_key, stream, attempt, response, in_reasoning_state,
                   out, ret, raised, frames, outcomes, sleeps, request,
                   received, rest>>

(***************************************************************************)
(* get_completion, run inside pipe's try: what leaves get_completion as an *)
(* exception is turned into pipe's `Error: ...` string.                    *)
(***************************************************************************)
GcNoKey ==
    /\ pc = "gc_attempt"
    /\ ~api_key
    /\ pc' = "done"
    /\ ret' = PipeError([type |-> "ValueError"])
    /\ UNCHANGED <<api_key, stream, attempt, response, in_reasoning_state,
                   out, raised, hist, request, received, held, rest>>

\* `except requests.RequestException as e` of get_completion.
GcExcept(resp, e) ==
    LET h == Handler(resp, attempt)
    IN /\ pc' = IF h = "retry" /\ attempt + 1 < retries
                THEN "gc_attempt"
                ELSE "done"
       /\ ret' = CASE h = "unbound" -> PipeError([type |-> "UnboundLocalError"])
                   [] h = "retry" -> ret
                   [] h = "fail" -> RequestFailed(e)
       /\ sleeps' = IF h = "retry"
                    THEN Append(sleeps, WaitTime(attempt))
                    ELSE sleeps
       /\ attempt' = IF h = "retry" THEN attempt + 1 ELSE attempt

GcPostConnFail ==
    /\ pc = "gc_attempt"
    /\ api_key
    /\ outcomes' = Append(outcomes, Conn)
    /\ response' = response
    /\ GcExcept(response, ConnectionError)
    /\ UNCHANGED <<api_key, stream, in_reasoning_state, out, raised, frames,
                   ended, request, received, held, rest>>

\* requests.post returns: _handle_response gives the body or raises a plain
\* Exception, which no handler of get_completion catches.
GcPostResponse ==
    /\ pc = "gc_attempt"
    /\ api_key
    /\ \E s \in Statuses, body \in Bodies :
          LET r == HandleResponse(s, body)
          IN /\ outcomes' = Append(outcomes, Http(s))
             /\ response' = Bound(s)
             /\ ret' = IF r.ok THEN Transform(r.data) ELSE PipeError(r.exc)
             /\ received' = r.data
    /\ pc' = "done"
    /\ UNCHANGED <<api_key, stream, attempt, in_reasoning_state, out, raised,
                   frames, ended, sleeps, request, held, rest>>

Next ==
    \/ Pipe
    \/ StreamNoKey
    \/ StreamPostConnFail
    \/ StreamPostStatus
    \/ StreamFrame
    \/ StreamDone
    \/ StreamEnd
    \/ StreamReadError
    \/ StreamAbandon
    \/ GcNoKey
    \/ GcPostConnFail
    \/ GcPostResponse

Spec == Init /\ [][Next]_vars

(***************************************************************************)
(* Two calls of stream_response on one Pipe instance, each answered with   *)
(* HTTP 200, the caller pulling from the two generators in any order.      *)
(***************************************************************************)
\* The most frames one of the two calls reads.
MaxPulls == 2

Calls == {1, 2}

\* The frames the upstream sends to the two calls.
TwoFrames ==
    { Chunk(Obj("r1", Absent), NoObj),
      Chunk(Obj(Absent, "c1"), NoObj),
      Chunk(Obj("r2", "c2"), NoObj),
      Line("badjson", NoObj, NoObj) }

\* Where a variable can live: in the frame of one call, or on the Pipe.
Cells == {"self"} \cup {"call" \o ToString(c) : c \in Calls}

\* in_reasoning_state kept as an attribute of the Pipe instance.
CellOnInstance(c) == "self"

\* `in_reasoning_state = False` in the body of stream_response: a local,
\* one for each call.
CellOf(c) == "call" \o ToString(c)

\* The locals of call c as ProcessLine takes them.
TwoState(c) ==
    [in_reasoning_state |-> cells[CellOf(c)], out |-> calls[c].out]

\* Call c goes on with the state st, at position p, its reading ended as e.
TwoUpdate(c, st, fs, p, e) ==
    /\ calls' = [calls EXCEPT ![c] = [pc |-> p, out |-> st.out,
                                       frames |-> fs, ended |-> e]]
    /\ cells' = [cells EXCEPT ![CellOf(c)] = st.in_reasoning_state]
    /\ UNCHANGED <<call_vars, models_vars>>

\* The first pull: the locals are set and the request is answered.
TwoStart(c) ==
    /\ calls[c].pc = "start"
    /\ TwoUpdate(c, [in_reasoning_state |-> FALSE, out |-> <<>>], <<>>,
                 "s_read", "no")

TwoFrame(c) ==
    /\ calls[c].pc = "s_read"
    /\ Len(calls[c].frames) < MaxPulls
    /\ \E line \in TwoFrames :
          TwoUpdate(c, ProcessLine(TwoState(c), line),
                    Append(calls[c].frames, line), "s_read", "no")

TwoDone(c) ==
    /\ calls[c].pc = "s_read"
    /\ TwoUpdate(c, AfterLoop(OnDone(TwoState(c))), calls[c].frames,
                 "done", "sentinel")

TwoEnd(c) ==
    /\ calls[c].pc = "s_read"
    /\ TwoUpdate(c, AfterLoop(TwoState(c)), calls[c].frames,
                 "done", "exhausted")

\* The reading fails: the response is bound with status 200, so the
\* handler reports the failure.
TwoReadError(c) ==
    /\ calls[c].pc = "s_read"
    /\ Handler(Bound(200), 0) = "fail"
    /\ TwoUpdate(c, [TwoState(c) EXCEPT
                        !.out = Append(@, RequestFailed(ChunkedEncodingError))],
                 calls[c].frames, "done", "error")

InitTwo ==
    /\ api_key = TRUE
    /\ CallIdle
    /\ ModelsIdle
    /\ calls = [c \in Calls |->
                  [pc |-> "start", out |-> <<>>, frames |-> <<>>,
                   ended |-> "no"]]
    /\ cells = [k \in Cells |-> FALSE]

NextTwo ==
    \/ \E c \in Calls : TwoStart(c)
    \/ \E c \in Calls : TwoFrame(c)
    \/ \E c \in Calls : TwoDone(c)
    \/ \E c \in Calls : TwoEnd(c)
    \/ \E c \in Calls : TwoReadError(c)

SpecTwo == InitTwo /\ [][NextTwo]_vars

(***************************************************************************)
(* get_openrouter_models: the catalog behind a cache that lives 300 s.     *)
(***************************************************************************)
\* The most calls of get_openrouter_models, and the most steps of the clock.
MaxCalls == 3

MaxTicks == 3

\* self._cache_duration = 300
cache_duration == 300

\* The seconds the clock moves by between calls.
TickSizes == {1, 299}

\* valves.MODEL_PREFIX
MODEL_PREFIX == "OpenRouter/"

\* A model of the catalog; free says that "free" occurs in id.lower().
Model(id, name, free) == [id |-> id, name |-> name, free |-> free]

\* The `data` lists the catalog request is answered with.
Catalogs ==
    { <<>>,
      <<Model("openai/gpt", "GPT", FALSE)>>,
      <<Model("openai/gpt", "GPT", FALSE),
        Model("meta/llama:free", Absent, TRUE)>> }

\* The FREE_ONLY filter and the formatting of the entries.
FormatModels(data, only_free) ==
    LET kept == SelectSeq(data, LAMBDA m : ~only_free \/ m.free)
    IN [i \in DOMAIN kept |->
          [id |-> kept[i].id,
           name |-> MODEL_PREFIX \o GetOr(kept[i].name, kept[i].id)]]

\* return [{"id": "error", "name": f"Error: {str(e)}"}]
ErrorModels(e) == <<[id |-> "error", name |-> "Error: " \o ExcText(e)]>>

\* What makes the catalog request fail once the headers are there.
FetchFailures ==
    [network |-> ConnectionError,
     http |-> [type |-> "Exception",
               message |-> HandleResponse(500, InvalidJson).exc.message],
     json |-> HandleResponse(200, InvalidJson).exc]

\* CacheFresh comparing the time of day, not the age of the cache.
CacheFreshAbsoluteTime(cache, fetched_at, t) ==
    cache.present /\ t < cache_duration

\* self._models_cache is not None and
\* (current_time - self._last_fetch_time) < self._cache_duration
CacheFresh(cache, fetched_at, t) ==
    cache.present /\ (t - fetched_at) < cache_duration

\* The clock moves on.
Tick ==
    /\ m_ticks < MaxTicks
    /\ m_ticks' = m_ticks + 1
    /\ \E d \in TickSizes : now' = now + d
    /\ UNCHANGED <<models_cache, last_fetch_time, free_only, m_result,
                   m_outcome, m_calls, call_vars, two_vars>>

\* A call while the cache is fresh: the cached list, no request.
ModelsCached ==
    /\ m_calls < MaxCalls
    /\ CacheFresh(models_cache, last_fetch_time, now)
    /\ m_calls' = m_calls + 1
    /\ m_result' = models_cache.models
    /\ m_outcome' = "cached"
    /\ UNCHANGED <<models_cache, last_fetch_time, free_only, now, m_ticks,
                   call_vars, two_vars>>

\* _get_headers raises before requests.get is called.
ModelsNoKey ==
    /\ m_calls < MaxCalls
    /\ ~CacheFresh(models_cache, last_fetch_time, now)
    /\ ~api_key
    /\ m_calls' = m_calls + 1
    /\ m_result' = ErrorModels([type |-> "ValueError"])
    /\ m_outcome' = "nokey"
    /\ UNCHANGED <<models_cache, last_fetch_time, free_only, now, m_ticks,
                   call_vars, two_vars>>

\* requests.get or _handle_response raises.
ModelsFetchFails ==
    /\ m_calls < MaxCalls
    /\ ~CacheFresh(models_cache, last_fetch_time, now)
    /\ api_key
    /\ m_calls' = m_calls + 1
    /\ \E f \in DOMAIN FetchFailures :
          /\ m_result' = ErrorModels(FetchFailures[f])
          /\ m_outcome' = f
    /\ UNCHANGED <<models_cache, last_fetch_time, free_only, now, m_ticks,
                   call_vars, two_vars>>

\* The catalog arrives: it is filtered, formatted, cached and returned.
ModelsFetched ==
    /\ m_calls < MaxCalls
    /\ ~CacheFresh(models_cache, last_fetch_time, now)
    /\ api_key
    /\ m_calls' = m_calls + 1
    /\ \E data \in Catalogs :
          /\ models_cache' = Cached(FormatModels(data, free_only))
          /\ m_result' = FormatModels(data, free_only)
    /\ last_fetch_time' = now
    /\ m_outcome' = "ok"
    /\ UNCHANGED <<free_only, now, m_ticks, call_vars, two_vars>>

InitModels ==
    /\ api_key \in BOOLEAN
    /\ CallIdle
    /\ TwoIdle
    /\ models_cache = NoCache
    /\ last_fetch_time = 0
    /\ free_only \in BOOLEAN
    /\ now = 0
    /\ m_result = <<>>
    /\ m_outcome = "none"
    /\ m_calls = 0
    /\ m_ticks = 0

NextModels ==
    \/ Tick
    \/ ModelsCached
    \/ ModelsNoKey
    \/ ModelsFetchFails
    \/ ModelsFetched

SpecModels == InitModels /\ [][NextModels]_vars

(***************************************************************************)
(* What the claims speak of: the fragments of a stream in arrival order.   *)
(***************************************************************************)
\* How often x occurs in seq.
Count(x, seq) == Cardinality({i \in DOMAIN seq : seq[i] = x})

\* The concatenation of a sequence of strings.
RECURSIVE Join(_)
Join(seq) == IF seq = <<>> THEN "" ELSE Head(seq) \o Join(Tail(seq))

\* The non-empty fragments one frame carries, reasoning before content.
FrameTokens(line) ==
    IF line.kind # "choice"
    THEN <<>>
    ELSE (IF Truthy(ReasoningText(line))
          THEN <<[kind |-> "r", text |-> ReasoningText(line)]>>
          ELSE <<>>)
         \o (IF Truthy(ContentText(line))
             THEN <<[kind |-> "c", text |-> ContentText(line)]>>
             ELSE <<>>)

\* The non-empty fragments of a run of frames, in arrival order.
RECURSIVE Tokens(_)
Tokens(fs) ==
    IF fs = <<>> THEN <<>> ELSE FrameTokens(Head(fs)) \o Tokens(Tail(fs))

\* The texts of the fragments of one kind, in arrival order.
RECURSIVE TextsOf(_, _)
TextsOf(k, tk) ==
    IF tk = <<>> THEN <<>>
    ELSE (IF Head(tk).kind = k THEN <<Head(tk).text>> ELSE <<>>)
         \o TextsOf(k, Tail(tk))

\* No reasoning fragment arrives after a content fragment.
ReasoningFirst(tk) ==
    \A i, j \in DOMAIN tk : (tk[i].kind = "c" /\ tk[j].kind = "r") => j < i

\* Fragment i starts a run of reasoning fragments.
StartsRun(tk, i) == tk[i].kind = "r" /\ (i = 1 \/ tk[i - 1].kind = "c")

\* Fragment i is the first content fragment after a run of reasoning.
EndsRun(tk, i) == tk[i].kind = "c" /\ i > 1 /\ tk[i - 1].kind = "r"

\* The number of maximal runs of reasoning fragments.
NumRuns(tk) == Cardinality({i \in DOMAIN tk : StartsRun(tk, i)})

\* The fragments with every run of reasoning between a pair of markers: an
\* opening marker before the first fragment of a run, a closing marker
\* before the content that follows it.
RECURSIVE BracketedFrom(_, _)
BracketedFrom(tk, i) ==
    IF i > Len(tk) THEN <<>>
    ELSE (IF StartsRun(tk, i) THEN <<OPEN_MARKER>> ELSE <<>>)
         \o (IF EndsRun(tk, i) THEN <<CLOSE_MARKER>> ELSE <<>>)
         \o <<tk[i].text>>
         \o BracketedFrom(tk, i + 1)

Bracketed(tk) == BracketedFrom(tk, 1)

\* The fragments a call yields whose first attempt is answered with the
\* frames fs and whose reading ends as e ("sentinel" or "exhausted").
RECURSIVE RunLines(_, _)
RunLines(st, fs) ==
    IF fs = <<>> THEN st ELSE RunLines(ProcessLine(st, Head(fs)), Tail(fs))

SingleCallOutput(fs, e) ==
    LET st == RunLines([in_reasoning_state |-> FALSE, out |-> <<>>], fs)
    IN IF e = "sentinel" THEN AfterLoop(OnDone(st)).out ELSE AfterLoop(st).out

\* The streaming call has ended with the whole response read.
StreamSucceeded ==
    stream /\ pc = "done" /\ ended \in {"sentinel", "exhausted"}

\* Every upstream request so far was answered with HTTP 429.
AllRateLimited == \A i \in DOMAIN outcomes : outcomes[i] = Http(RATE_LIMITED)

(***************************************************************************)
(* The claims.                                                             *)
(***************************************************************************)
\* C1: a stream that reaches `data: [DONE]` while in_reasoning_state is true
\* ends with exactly one closing marker after the last reasoning fragment:
\* the last fragment is the closing marker, the one before it is not, and
\* the markers are balanced.
C1_ClosedOnceAtSentinel ==
    (stream /\ pc = "done" /\ ended = "sentinel" /\ in_reasoning_state)
        => /\ Len(out) >= 3
           /\ out[Len(out)] = CLOSE_MARKER
           /\ out[Len(out) - 1] # CLOSE_MARKER
           /\ Count(CLOSE_MARKER, out) = Count(OPEN_MARKER, out)

\* C2: when the reading of the response fails, every opening marker of the
\* output has its closing marker, next to the error fragment.
C2_ClosedOnError ==
    (stream /\ pc = "done" /\ ended = "error")
        => /\ Count(CLOSE_MARKER, out) = Count(OPEN_MARKER, out)
           /\ out[Len(out)] = RequestFailed(ChunkedEncodingError)

\* C3: in stream_response an attempt is followed by another attempt only if
\* it was answered with HTTP 429: a connection failure or another status is
\* never followed by a further upstream request.
C3_OnlyRateLimitIsRetried ==
    stream =>
        \A i \in DOMAIN outcomes :
            i < Len(outcomes) => outcomes[i] = Http(RATE_LIMITED)

\* C4: get_completion retries on HTTP 429: a call of get_completion whose
\* last answer was HTTP 429 has used the whole budget of 3 requests, and
\* has slept 2^attempt seconds before each request after the first.
C4_GetCompletionRetries ==
    (~stream /\ pc = "done" /\ outcomes # <<>>
        /\ outcomes[Len(outcomes)] = Http(RATE_LIMITED))
        => /\ nreq = retries
           /\ sleeps = [i \in 1..(retries - 1) |-> 2 ^ (i - 1)]

\* C5: no failure of a request made through pipe reaches the caller as a
\* raised exception, in either mode.
C5_NeverRaises == raised = "none" /\ pc # "raised"

\* C6: in stream_response, after HTTP 429 on attempts 1 and 2 and a success
\* on attempt 3, the waits were 1 s then 2 s, each before the next request,
\* and the fragments are those of a call whose first attempt succeeded with
\* the same stream.
C6_RetryThenSuccess ==
    /\ (stream /\ AllRateLimited /\ pc = "s_attempt")
          => Len(sleeps) = nreq
    /\ (StreamSucceeded
          /\ outcomes = <<Http(RATE_LIMITED), Http(RATE_LIMITED), Http(200)>>)
          => /\ sleeps = <<1, 2>>
             /\ out = SingleCallOutput(frames, ended)

C6_Witness ==
    /\ StreamSucceeded
    /\ outcomes = <<Http(RATE_LIMITED), Http(RATE_LIMITED), Http(200)>>
    /\ Len(Tokens(frames)) >= 2
    /\ sleeps = <<1, 2>>

\* C7: stream_response never issues a fourth request, and when every
\* request was answered with HTTP 429 the call ends after exactly 3 requests
\* with one failure fragment as its whole output.
C7_RetryExhaustion ==
    stream =>
        /\ nreq <= retries
        /\ (pc \in {"done", "raised"} /\ outcomes # <<>> /\ AllRateLimited)
              => /\ pc = "done"
                 /\ nreq = retries
                 /\ out = <<RequestFailed(HTTPError(RATE_LIMITED))>>

C7_Witness ==
    /\ stream
    /\ pc = "done"
    /\ nreq = retries
    /\ AllRateLimited
    /\ out = <<RequestFailed(HTTPError(RATE_LIMITED))>>

\* C8: for a successful stream whose reasoning fragments all precede its
\* content fragments, with at least one of each, the concatenated output is
\* the opening marker, the reasoning in arrival order, the closing marker,
\* the content in arrival order, each marker occurring once.
C8_ReasoningThenContent ==
    LET tk == Tokens(frames)
    IN (StreamSucceeded /\ ReasoningFirst(tk)
          /\ TextsOf("r", tk) # <<>> /\ TextsOf("c", tk) # <<>>)
          => /\ Join(out) = OPEN_MARKER \o Join(TextsOf("r", tk))
                              \o CLOSE_MARKER \o Join(TextsOf("c", tk))
             /\ out = <<OPEN_MARKER>> \o TextsOf("r", tk)
                        \o <<CLOSE_MARKER>> \o TextsOf("c", tk)

C8_Witness ==
    LET tk == Tokens(frames)
    IN /\ StreamSucceeded
       /\ ReasoningFirst(tk)
       /\ TextsOf("r", tk) = <<"r2", "r1">>
       /\ TextsOf("c", tk) = <<"c1", "c2">>
       /\ Join(out) = "<think>\nr2r1\n</think>\n\nc1c2"

\* The kinds of the fragments are reasoning, content, reasoning, content: two
\* runs of reasoning, each followed by content.
TwoRuns(tk) ==
    /\ tk # <<>>
    /\ tk[1].kind = "r"
    /\ tk[Len(tk)].kind = "c"
    /\ NumRuns(tk) = 2

\* C9: for a stream of reasoning, content, more reasoning, more content, the
\* output has two opening and two closing markers, and each pair brackets
\* exactly one run of reasoning fragments.
C9_TwoBlocks ==
    LET tk == Tokens(frames)
    IN (StreamSucceeded /\ TwoRuns(tk))
          => /\ out = Bracketed(tk)
             /\ Count(OPEN_MARKER, out) = 2
             /\ Count(CLOSE_MARKER, out) = 2

C9_Witness ==
    /\ StreamSucceeded
    /\ TwoRuns(Tokens(frames))
    /\ out = <<OPEN_MARKER, "r2", CLOSE_MARKER, "c2",
               OPEN_MARKER, "r1", CLOSE_MARKER, "c1">>

\* C10, as stated: one call of stream_response yields at most one opening
\* marker, whatever the arrival pattern.
C10_AtMostOneBlock == stream => Count(OPEN_MARKER, out) <= 1

\* C10, amended: one call of stream_response yields exactly one opening
\* marker for each maximal run of reasoning fragments that no content
\* fragment interrupts; hence at most one when no reasoning fragment arrives
\* after a content fragment.
C10_OneBlockPerRun ==
    LET tk == Tokens(frames)
    IN stream =>
          /\ Count(OPEN_MARKER, out) = NumRuns(tk)
          /\ ReasoningFirst(tk) => Count(OPEN_MARKER, out) <= 1

C10_Witness ==
    /\ StreamSucceeded
    /\ NumRuns(Tokens(frames)) = 2
    /\ Count(OPEN_MARKER, out) = 2

\* The stream_response call is over, one way or another.
StreamOver == stream /\ pc \in {"done", "raised", "abandoned"}

\* s is a leading part of t.
IsPrefix(s, t) == Len(s) <= Len(t) /\ SubSeq(t, 1, Len(s)) = s

\* The frames that are not malformed or of another shape than expected.
NoSkips(fs) == SelectSeq(fs, LAMBDA f : f \notin SkipLines)

\* C11: for a successful stream without a non-empty reasoning fragment,
\* ended by the sentinel or by running out of frames, no marker is emitted
\* and the output is the content fragments in arrival order.
C11_NoReasoningNoMarkers ==
    LET tk == Tokens(frames)
    IN (StreamSucceeded /\ TextsOf("r", tk) = <<>>)
          => /\ out = TextsOf("c", tk)
             /\ Count(OPEN_MARKER, out) = 0
             /\ Count(CLOSE_MARKER, out) = 0

C11_Witness ==
    /\ StreamSucceeded
    /\ TextsOf("r", Tokens(frames)) = <<>>
    /\ out = <<"c2", "c1">>

\* C12: once a fragment has been yielded, stream_response issues no further
\* upstream request; fragments yielded are kept; and when the reading of the
\* response fails the sequence ends with the error fragment.
C12_NoRetryAfterOutput ==
    [][stream =>
         /\ out # <<>> => outcomes' = outcomes
         /\ IsPrefix(out, out')
         /\ (ended # "error" /\ ended' = "error")
               => /\ pc' = "done"
                  /\ out' = Append(out, RequestFailed(ChunkedEncodingError))]_vars

C12_Witness ==
    /\ stream
    /\ pc = "done"
    /\ ended = "error"
    /\ out = <<OPEN_MARKER, "r1", CLOSE_MARKER, "c1",
               RequestFailed(ChunkedEncodingError)>>

OneShot(d) ==
    LET r == IF d.choices = "one" /\ d.message.reasoning # Absent
             THEN d.message.reasoning ELSE ""
        c == IF d.choices = "one" /\ d.message.content # Absent
             THEN d.message.content ELSE ""
    IN IF r # "" THEN OPEN_MARKER \o r \o CLOSE_MARKER \o c ELSE c

\* C14: get_completion returns, for a successful response, the one-shot
\* transform of its body.
C14_OneShotTransform ==
    (request.model /\ request.messages /\ ~request.stream /\ pc = "done"
        /\ outcomes = <<Http(200)>> /\ received.json)
        => ret = OneShot(received)

C14_Witness ==
    /\ ~request.stream
    /\ pc = "done"
    /\ outcomes = <<Http(200)>>
    /\ received = Data("one", Obj("r1", ""))
    /\ ret = "<think>\nr1\n</think>\n\n"

\* C15: for a successful stream whose reasoning fragments all precede its
\* content fragments, the concatenation of the fragments stream_response
\* yields is what get_completion returns for one message carrying the
\* concatenated reasoning and the concatenated content.
C15_StreamEqualsOneShot ==
    LET tk == Tokens(frames)
    IN (StreamSucceeded /\ ReasoningFirst(tk))
          => Join(out) = Transform(Data("one", Obj(Join(TextsOf("r", tk)),
                                                   Join(TextsOf("c", tk)))))

\* C16: a stream_response call that is over holds no connection.
C16_ConnectionsReleased == StreamOver => held = 0

\* C18: pipe called without `model` or without `messages` returns the
\* failure text at once, in both modes, and no upstream request, no sleep
\* and no fragment follows.
C18_MissingFieldNoRequest ==
    (pc # "idle" /\ (~request.model \/ ~request.messages))
        => /\ pc = "done"
           /\ ret = PipeMissingKey(IF ~request.model THEN "model"
                                   ELSE "messages")
           /\ outcomes = <<>>
           /\ sleeps = <<>>
           /\ out = <<>>
           /\ raised = "none"

C18_Witness ==
    /\ pc = "done"
    /\ request = [model |-> TRUE, messages |-> FALSE, stream |-> TRUE]
    /\ ret = "Error: Missing required key in request: 'messages'"
    /\ outcomes = <<>>

\* The opening markers less the closing markers among the first k fragments.
Depth(k) ==
    Count(OPEN_MARKER, SubSeq(out, 1, k))
        - Count(CLOSE_MARKER, SubSeq(out, 1, k))

\* C19: while the frames of an attempt are processed, in_reasoning_state is
\* true iff one more opening than closing marker has been yielded and false
\* iff as many; the markers alternate, opening first.
C19_StateTracksMarkers ==
    (stream /\ pc = "s_read")
        => /\ in_reasoning_state <=> Depth(Len(out)) = 1
           /\ ~in_reasoning_state <=> Depth(Len(out)) = 0
           /\ \A k \in 0..Len(out) : Depth(k) \in {0, 1}

C19_Witness ==
    /\ stream
    /\ pc = "s_read"
    /\ in_reasoning_state
    /\ Count(OPEN_MARKER, out) = 2
    /\ Count(CLOSE_MARKER, out) = 1

\* What call c yields when it runs alone on the frames it has read.
AloneOutput(c) ==
    LET st == RunLines([in_reasoning_state |-> FALSE, out |-> <<>>],
                       calls[c].frames)
    IN CASE calls[c].ended = "no" -> st.out
         [] calls[c].ended = "error" ->
               Append(st.out, RequestFailed(ChunkedEncodingError))
         [] OTHER -> SingleCallOutput(calls[c].frames, calls[c].ended)

\* C17: with the pulls of two stream_response calls on one Pipe interleaved
\* in any order, each call has yielded, at every point, the fragments it
\* yields when run alone on its frames, and its in_reasoning_state is the
\* one of that run.
C17_CallsIndependent ==
    \A c \in Calls :
        calls[c].pc # "start"
            => /\ calls[c].out = AloneOutput(c)
               /\ calls[c].pc = "s_read"
                     => cells[CellOf(c)]
                          = RunLines([in_reasoning_state |-> FALSE,
                                      out |-> <<>>],
                                     calls[c].frames).in_reasoning_state

C17_Witness ==
    /\ calls[1].pc = "s_read"
    /\ calls[1].out = <<OPEN_MARKER, "r1">>
    /\ calls[2].pc = "done"
    /\ calls[2].out = <<"c1", OPEN_MARKER, "r1", CLOSE_MARKER>>

\* C20: a call of get_openrouter_models that fails returns one error entry
\* and leaves _models_cache and _last_fetch_time as they were, and only a
\* fetched catalog is ever stored; a call made while a cached list exists
\* that is less than 300 s old returns that list and issues no request.
C20_CacheKept ==
    [][m_calls' # m_calls =>
         /\ m_outcome' \in {"nokey", "network", "http", "json"}
               => /\ Len(m_result') = 1
                  /\ m_result'[1].id = "error"
                  /\ models_cache' = models_cache
                  /\ last_fetch_time' = last_fetch_time
         /\ models_cache' # models_cache => m_outcome' = "ok"
         /\ (models_cache.present /\ now - last_fetch_time < 300)
               => /\ m_outcome' = "cached"
                  /\ m_result' = models_cache.models
                  /\ models_cache' = models_cache
                  /\ last_fetch_time' = last_fetch_time]_vars

C20_Witness ==
    /\ m_outcome = "cached"
    /\ now = 599
    /\ last_fetch_time = 300
    /\ Len(models_cache.models) = 1
    /\ m_result = models_cache.models

====
